---- MODULE Spec2Model ----
(***************************************************************************)
(* A model of the CodePushing pass (src/passes/CodePushing.cpp): the       *)
(* LocalAnalyzer, the Pusher that rewrites one block's list, and the       *)
(* CodePushing walker that drives both over a function body.               *)
(*                                                                         *)
(* Indices are 0-based as in the C++ code; At(list, i) reads list[i].      *)
(***************************************************************************)
EXTENDS Integers, Sequences, FiniteSets, TLC

\* Longest function body (number of statements) that is explored.
MaxLen == 5

\* The function under optimisation: its parameters are the locals below
\* getNumParams, its variables the locals from there to getNumLocals.
getNumParams == 1
getNumLocals == 3
Locals == 0 .. (getNumLocals - 1)

\* The locals the statements use: the last parameter and the first two
\* variables.
LocalP == getNumParams - 1
LocalX == getNumParams
LocalY == getNumParams + 1

\* const Index nothing = -1
nothing == -1

\* visitBlock's size gate
MinBlockSize == 3

At(list, i) == list[i + 1]

(***************************************************************************)
(* Expressions.  Every node is [id, op, index, kids].  id is the identity  *)
(* (the Expression* pointer) of a statement of a block's list, index is    *)
(* the local of a local.get / local.set (the literal of a const), kids are *)
(* the children in the order the PostWalker visits them.                   *)
(***************************************************************************)
Const(v) == [id |-> 0, op |-> "const", index |-> v, kids |-> <<>>]
LocalGet(x) == [id |-> 0, op |-> "local.get", index |-> x, kids |-> <<>>]
LocalSet(n, x, v) == [id |-> n, op |-> "local.set", index |-> x, kids |-> <<v>>]
Call(n, args) == [id |-> n, op |-> "call", index |-> 0, kids |-> args]
Break(n, cond) == [id |-> n, op |-> "break", index |-> 0, kids |-> cond]
If(n, cond, ifTrue) == [id |-> n, op |-> "if", index |-> 0, kids |-> <<cond, ifTrue>>]
Drop(n, v) == [id |-> n, op |-> "drop", index |-> 0, kids |-> <<v>>]
Block(n, list) == [id |-> n, op |-> "block", index |-> 0, kids |-> list]

\* The statements a function body is drawn from; n is the statement's identity.
\* p is LocalP, x is LocalX, y is LocalY.
\*   1  x := const        2  y := const        3  y := x
\*   4  y := call(x)      5  br_if (p)         6  drop(if (y) call())
Templates == {"x=c", "y=c", "y=x", "y=call(x)", "br_if(p)", "drop(if(y))"}
Stmt(t, n) ==
  CASE t = "x=c" -> LocalSet(n, LocalX, Const(n))
    [] t = "y=c" -> LocalSet(n, LocalY, Const(n))
    [] t = "y=x" -> LocalSet(n, LocalY, LocalGet(LocalX))
    [] t = "y=call(x)" -> LocalSet(n, LocalY, Call(n, <<LocalGet(LocalX)>>))
    [] t = "br_if(p)" -> Break(n, <<LocalGet(LocalP)>>)
    [] OTHER -> Drop(n, If(n, LocalGet(LocalY), Call(n, <<>>)))

(***************************************************************************)
(* The effect model (ir/effects.h), as far as the pass consumes it.        *)
(***************************************************************************)
NoEffects ==
  [localsRead |-> {}, localsWritten |-> {}, calls |-> FALSE, branchesOut |-> FALSE]

mergeIn(a, b) ==
  [localsRead |-> a.localsRead \cup b.localsRead,
   localsWritten |-> a.localsWritten \cup b.localsWritten,
   calls |-> a.calls \/ b.calls,
   branchesOut |-> a.branchesOut \/ b.branchesOut]

\* mergeIn of every effect set of a sequence
MergeAll(s) ==
  [localsRead |-> UNION {s[k].localsRead : k \in 1 .. Len(s)},
   localsWritten |-> UNION {s[k].localsWritten : k \in 1 .. Len(s)},
   calls |-> \E k \in 1 .. Len(s) : s[k].calls,
   branchesOut |-> \E k \in 1 .. Len(s) : s[k].branchesOut]

\* EffectAnalyzer::walk of one expression.  A break inside a block targets that
\* block, so a block as a whole does not branch out.
RECURSIVE Effects(_)
Effects(e) ==
  LET sub == MergeAll([k \in 1 .. Len(e.kids) |-> Effects(e.kids[k])])
  IN CASE e.op = "local.get" -> [sub EXCEPT !.localsRead = @ \cup {e.index}]
       [] e.op = "local.set" -> [sub EXCEPT !.localsWritten = @ \cup {e.index}]
       [] e.op = "call" -> [sub EXCEPT !.calls = TRUE]
       [] e.op = "break" -> [sub EXCEPT !.branchesOut = TRUE]
       [] e.op = "block" -> [sub EXCEPT !.branchesOut = FALSE]
       [] OTHER -> sub

hasSideEffects(a) == a.localsWritten # {} \/ a.calls \/ a.branchesOut

invalidates(a, b) ==
  \/ a.branchesOut /\ hasSideEffects(b)
  \/ b.branchesOut /\ hasSideEffects(a)
  \/ a.calls /\ b.calls
  \/ a.localsWritten \cap (b.localsRead \cup b.localsWritten) # {}
  \/ a.localsRead \cap b.localsWritten # {}

ignoreControlFlowTransfers(a) == [a EXCEPT !.branchesOut = FALSE]

(***************************************************************************)
(* PostWalker order: the children of a node, then the node.                *)
(***************************************************************************)
RECURSIVE ConcatFrom(_, _)
ConcatFrom(ss, k) == IF k > Len(ss) THEN <<>> ELSE ss[k] \o ConcatFrom(ss, k + 1)

Concat(ss) == ConcatFrom(ss, 1)

RECURSIVE PostOrder(_)
PostOrder(e) ==
  Concat([k \in 1 .. Len(e.kids) |-> PostOrder(e.kids[k])]) \o <<e>>

PostOrderList(list) == Concat([k \in 1 .. Len(list) |-> PostOrder(list[k])])

VARIABLES
  body,          \* func->body: the list of the function's outermost block
  orig,          \* the body the pass was given
  sfa, numSets, numGets,   \* LocalAnalyzer
  numGetsSoFar,  \* CodePushing::numGetsSoFar
  pc,            \* "start", "walk", "pusher", "done"
  walked,        \* number of statements of body the walk has left behind
  cur,           \* the block the Pusher works on: 0 the body, k the block body[k]
  i, firstPushable,   \* the Pusher constructor's scan
  seg,           \* the optimizeSegment call that has just returned, if any
  entry,         \* the block's list when the Pusher was constructed
  pushed,        \* identities of the statements this Pusher has put in toPush
  assertOk,      \* no assert of the Pusher has failed
  run,           \* 1 in the first run of the pass over the body, 2 in the second
  first,         \* the body the first run produced
  lastFp         \* firstPushable of this Pusher's latest optimizeSegment call

vars == <<body, orig, sfa, numSets, numGets, numGetsSoFar, pc, walked, cur, i,
          firstPushable, seg, entry, pushed, assertOk, run, first, lastFp>>

(***************************************************************************)
(* LocalAnalyzer                                                           *)
(***************************************************************************)
\* visitLocalGet without "if (numSets[curr->index] == 0) sfa = false"
VisitLocalGetKeepsSfa(a, curr) ==
  [a EXCEPT !.numGets[curr.index] = @ + 1]

AnalyzerVisitLocalGet(a, curr) ==
  [a EXCEPT !.sfa[curr.index] = IF a.numSets[curr.index] = 0 THEN FALSE ELSE @,
            !.numGets[curr.index] = @ + 1]

AnalyzerVisitLocalSet(a, curr) ==
  [a EXCEPT !.numSets[curr.index] = @ + 1,
            !.sfa[curr.index] = IF a.numSets[curr.index] + 1 > 1 THEN FALSE ELSE @]

RECURSIVE AnalyzerWalk(_, _)
AnalyzerWalk(a, nodes) ==
  IF nodes = <<>> THEN a
  ELSE LET curr == Head(nodes)
           b == CASE curr.op = "local.get" -> AnalyzerVisitLocalGet(a, curr)
                  [] curr.op = "local.set" -> AnalyzerVisitLocalSet(a, curr)
                  [] OTHER -> a
       IN AnalyzerWalk(b, Tail(nodes))

analyze(list) ==
  LET a0 == [sfa |-> [x \in Locals |-> x >= getNumParams],
             numSets |-> [x \in Locals |-> 0],
             numGets |-> [x \in Locals |-> 0]]
      a1 == AnalyzerWalk(a0, PostOrderList(list))
  IN [a1 EXCEPT !.sfa = [x \in Locals |-> IF a1.numSets[x] = 0 THEN FALSE ELSE a1.sfa[x]]]

isSFA(x) == sfa[x]
getNumGets(x) == numGets[x]

(***************************************************************************)
(* Pusher                                                                  *)
(***************************************************************************)
\* isPushable without the comparison of numGetsSoFar with the total gets
isPushableAnyGets(curr) ==
  /\ curr.op = "local.set"
  /\ isSFA(curr.index)
  /\ ~hasSideEffects(Effects(curr.kids[1]))

\* isPushable without the test of the value's side effects
isPushableAnyValue(curr) ==
  /\ curr.op = "local.set"
  /\ isSFA(curr.index)
  /\ numGetsSoFar[curr.index] = getNumGets(curr.index)

isPushable(curr) ==
  /\ curr.op = "local.set"
  /\ isSFA(curr.index)
  /\ numGetsSoFar[curr.index] = getNumGets(curr.index)
  /\ ~hasSideEffects(Effects(curr.kids[1]))

isPushPoint(curr) ==
  LET c == IF curr.op = "drop" THEN curr.kids[1] ELSE curr
  IN IF c.op = "if" THEN TRUE
     ELSE IF c.op = "break" THEN Len(c.kids) > 0
     ELSE FALSE

\* One iteration of the backward scan's while (1), up to the test of
\* i == firstPushable: what it leaves in cumulativeEffects and toPush.
\* (pushableEffects caches the effects of a pushable, which do not change.)

\* the iteration without "cumulativeEffects.walk(list[i])" for a statement
\* that cannot be pushed
ScanStepNoWalk(list, j, cumulativeEffects, toPush) ==
  IF isPushable(At(list, j))
  THEN LET effects == Effects(At(list, j))
       IN IF invalidates(cumulativeEffects, effects)
          THEN [cum |-> mergeIn(cumulativeEffects, effects), toPush |-> toPush]
          ELSE [cum |-> cumulativeEffects, toPush |-> Append(toPush, At(list, j))]
  ELSE [cum |-> cumulativeEffects, toPush |-> toPush]

\* the iteration without "cumulativeEffects.mergeIn(effects)" for a pushable
\* that stays
ScanStepNoMerge(list, j, cumulativeEffects, toPush) ==
  IF isPushable(At(list, j))
  THEN LET effects == Effects(At(list, j))
       IN IF invalidates(cumulativeEffects, effects)
          THEN [cum |-> cumulativeEffects, toPush |-> toPush]
          ELSE [cum |-> cumulativeEffects, toPush |-> Append(toPush, At(list, j))]
  ELSE [cum |-> mergeIn(cumulativeEffects, Effects(At(list, j))), toPush |-> toPush]

ScanStep(list, j, cumulativeEffects, toPush) ==
  IF isPushable(At(list, j))
  THEN LET effects == Effects(At(list, j))
       IN IF invalidates(cumulativeEffects, effects)
          THEN [cum |-> mergeIn(cumulativeEffects, effects), toPush |-> toPush]
          ELSE [cum |-> cumulativeEffects, toPush |-> Append(toPush, At(list, j))]
  ELSE [cum |-> mergeIn(cumulativeEffects, Effects(At(list, j))), toPush |-> toPush]

\* The backward scan of optimizeSegment, from index j down to fp.  ok is FALSE
\* when assert(i > 0) fails.  ScanFrom is BackwardScan with the loop's
\* variables already evaluated.
RECURSIVE BackwardScan(_, _, _, _, _), ScanFrom(_, _, _, _, _)
ScanFrom(list, fp, j, cumulativeEffects, toPush) ==
  CHOOSE r \in {BackwardScan(list, fp, j, c, t) :
                  c \in {cumulativeEffects}, t \in {toPush}} : TRUE

BackwardScan(list, fp, j, cumulativeEffects, toPush) ==
  CHOOSE r \in
    {IF isPushable(At(list, j)) /\ j = fp THEN [toPush |-> s.toPush, ok |-> TRUE]
     ELSE IF j > 0 THEN ScanFrom(list, fp, j - 1, s.cum, s.toPush)
     ELSE [toPush |-> s.toPush, ok |-> FALSE] :
       s \in {ScanStep(list, j, cumulativeEffects, toPush)}} : TRUE

\* One iteration of the compaction loop's body.

\* the iteration that looks for the selected statements from the front of
\* toPush
CompactStepFromFront(list, j, skip, toPush) ==
  IF skip < Len(toPush) /\ At(list, j).id = At(toPush, skip).id
  THEN [list |-> list, skip |-> skip + 1]
  ELSE [list |-> IF skip > 0 THEN [list EXCEPT ![j - skip + 1] = At(list, j)] ELSE list,
        skip |-> skip]

\* the iteration without "list[i - skip] = list[i]"
CompactStepNoShift(list, j, skip, toPush) ==
  IF skip < Len(toPush) /\ At(list, j).id = At(toPush, Len(toPush) - 1 - skip).id
  THEN [list |-> list, skip |-> skip + 1]
  ELSE [list |-> list, skip |-> skip]

CompactStep(list, j, skip, toPush) ==
  LET total == Len(toPush)
      last == total - 1
  IN IF skip < total /\ At(list, j).id = At(toPush, last - skip).id
     THEN [list |-> list, skip |-> skip + 1]
     ELSE [list |-> IF skip > 0 THEN [list EXCEPT ![j - skip + 1] = At(list, j)] ELSE list,
           skip |-> skip]

\* The compaction loop: for (i = firstPushable; i <= pushPoint; i++).
RECURSIVE Compact(_, _, _, _, _)
Compact(list, j, pushPoint, skip, toPush) ==
  IF j > pushPoint THEN [list |-> list, skip |-> skip]
  ELSE CHOOSE r \in {Compact(s.list, j + 1, pushPoint, s.skip, toPush) :
                       s \in {CompactStep(list, j, skip, toPush)}} : TRUE

\* the write-out with toPush taken from its end
WriteOutReversed(list, pushPoint, toPush) ==
  [k \in 1 .. Len(list) |->
     IF pushPoint - Len(toPush) < k - 1 /\ k - 1 <= pushPoint
     THEN At(toPush, Len(toPush) - 1 - (pushPoint - (k - 1)))
     ELSE list[k]]

\* for (i = 0; i < total; i++) list[pushPoint - i] = toPush[i];
WriteOut(list, pushPoint, toPush) ==
  [k \in 1 .. Len(list) |->
     IF pushPoint - Len(toPush) < k - 1 /\ k - 1 <= pushPoint
     THEN At(toPush, pushPoint - (k - 1))
     ELSE list[k]]

\* optimizeSegment from "if (toPush.size() == 0)" on; scan is what the backward
\* scan has left.

\* the rest of optimizeSegment that always continues after the push point
RewriteResumeAfter(list, fp, pushPoint, scan) ==
  LET toPush == scan.toPush
      total == Len(toPush)
  IN IF ~scan.ok
     THEN [list |-> list, ret |-> pushPoint + 1, toPush |-> toPush, ok |-> FALSE]
     ELSE IF total = 0
     THEN [list |-> list, ret |-> pushPoint + 1, toPush |-> toPush, ok |-> TRUE]
     ELSE LET c == Compact(list, fp, pushPoint, 0, toPush)
          IN [list |-> WriteOut(c.list, pushPoint, toPush),
              ret |-> pushPoint + 1,
              toPush |-> toPush,
              ok |-> c.skip = total]

\* the rest of optimizeSegment that returns pushPoint - total
RewriteResumeEarlier(list, fp, pushPoint, scan) ==
  LET toPush == scan.toPush
      total == Len(toPush)
  IN IF ~scan.ok
     THEN [list |-> list, ret |-> pushPoint + 1, toPush |-> toPush, ok |-> FALSE]
     ELSE IF total = 0
     THEN [list |-> list, ret |-> pushPoint + 1, toPush |-> toPush, ok |-> TRUE]
     ELSE LET c == Compact(list, fp, pushPoint, 0, toPush)
          IN [list |-> WriteOut(c.list, pushPoint, toPush),
              ret |-> pushPoint - total,
              toPush |-> toPush,
              ok |-> c.skip = total]

Rewrite(list, fp, pushPoint, scan) ==
  LET toPush == scan.toPush
      total == Len(toPush)
  IN IF ~scan.ok
     THEN [list |-> list, ret |-> pushPoint + 1, toPush |-> toPush, ok |-> FALSE]
     ELSE IF total = 0
     THEN [list |-> list, ret |-> pushPoint + 1, toPush |-> toPush, ok |-> TRUE]
     ELSE LET c == Compact(list, fp, pushPoint, 0, toPush)
          IN [list |-> WriteOut(c.list, pushPoint, toPush),
              ret |-> pushPoint - total + 1,
              toPush |-> toPush,
              ok |-> c.skip = total]

optimizeSegment(list, fp, pushPoint) ==
  IF ~(fp # nothing /\ pushPoint # nothing /\ fp < pushPoint)
  THEN [list |-> list, ret |-> pushPoint + 1, toPush |-> <<>>, ok |-> FALSE]
  ELSE
    LET cumulativeEffects == ignoreControlFlowTransfers(Effects(At(list, pushPoint)))
    IN CHOOSE r \in {Rewrite(list, fp, pushPoint, scan) :
                       scan \in {BackwardScan(list, fp, pushPoint - 1,
                                              cumulativeEffects, <<>>)}} : TRUE

\* block->list of the block the Pusher was constructed for
CurList == IF cur = 0 THEN body ELSE body[cur].kids
WithCurList(new) == IF cur = 0 THEN new ELSE [body EXCEPT ![cur].kids = new]

relevant == Len(CurList) - 1

NoSeg == [fp |-> nothing, pushPoint |-> nothing, before |-> <<>>,
          toPush |-> <<>>, ret |-> nothing, prev |-> nothing]

Ids(s) == {s[k].id : k \in 1 .. Len(s)}

\* while (i < relevant): first branch
MarkFirstPushable ==
  /\ pc = "pusher" /\ assertOk
  /\ i < relevant
  /\ firstPushable = nothing /\ isPushable(At(CurList, i))
  /\ firstPushable' = i
  /\ i' = i + 1
  /\ seg' = NoSeg
  /\ UNCHANGED <<body, orig, sfa, numSets, numGets, numGetsSoFar, pc, walked, cur,
                 entry, pushed, assertOk, run, first, lastFp>>

\* while (i < relevant): second branch
OptimizeSegment ==
  /\ pc = "pusher" /\ assertOk
  /\ i < relevant
  /\ ~(firstPushable = nothing /\ isPushable(At(CurList, i)))
  /\ firstPushable # nothing /\ isPushPoint(At(CurList, i))
  /\ \E r \in {optimizeSegment(CurList, firstPushable, i)} :
        /\ body' = WithCurList(r.list)
        /\ i' = r.ret
        /\ seg' = [fp |-> firstPushable, pushPoint |-> i, before |-> CurList,
                   toPush |-> r.toPush, ret |-> r.ret, prev |-> lastFp]
        /\ pushed' = pushed \cup Ids(r.toPush)
        /\ assertOk' = r.ok
  /\ firstPushable' = nothing
  /\ lastFp' = firstPushable
  /\ UNCHANGED <<orig, sfa, numSets, numGets, numGetsSoFar, pc, walked, cur, entry,
                 run, first>>

\* while (i < relevant): neither branch
Advance ==
  /\ pc = "pusher" /\ assertOk
  /\ i < relevant
  /\ ~(firstPushable = nothing /\ isPushable(At(CurList, i)))
  /\ ~(firstPushable # nothing /\ isPushPoint(At(CurList, i)))
  /\ i' = i + 1
  /\ seg' = NoSeg
  /\ UNCHANGED <<body, orig, sfa, numSets, numGets, numGetsSoFar, pc, walked, cur,
                 firstPushable, entry, pushed, assertOk, run, first, lastFp>>

\* the loop ends, the constructor and visitBlock return
PusherDone ==
  /\ pc = "pusher" /\ assertOk
  /\ ~(i < relevant)
  /\ pc' = "walk"
  /\ seg' = NoSeg
  /\ UNCHANGED <<body, orig, sfa, numSets, numGets, numGetsSoFar, walked, cur, i,
                 firstPushable, entry, pushed, assertOk, run, first, lastFp>>

(***************************************************************************)
(* CodePushing                                                             *)
(***************************************************************************)
\* visitLocalGet on every local.get of nodes
CountGets(counts, nodes) ==
  [x \in Locals |->
     counts[x] + Cardinality({k \in 1 .. Len(nodes) :
                                nodes[k].op = "local.get" /\ nodes[k].index = x})]

\* doWalkFunction(func), for the function whose body's list is b
WalkFunction(b) ==
  /\ LET a == analyze(b)
     IN /\ sfa' = a.sfa
        /\ numSets' = a.numSets
        /\ numGets' = a.numGets
  /\ numGetsSoFar' = [x \in Locals |-> 0]
  /\ pc' = "walk"
  /\ walked' = 0

\* The walk goes on to the next block in post-order, calling visitLocalGet on
\* the way, and calls visitBlock on it.
NextBlock ==
  IF \E k \in (walked + 1) .. Len(body) : body[k].op = "block"
  THEN CHOOSE k \in (walked + 1) .. Len(body) :
         /\ body[k].op = "block"
         /\ \A m \in (walked + 1) .. (k - 1) : body[m].op # "block"
  ELSE 0

visitBlock ==
  /\ pc = "walk"
  /\ walked <= Len(body)
  /\ \E b \in {NextBlock} :
     \E list \in {IF b = 0 THEN body ELSE body[b].kids} :
        /\ \E seen \in {PostOrderList(SubSeq(body, walked + 1,
                                             IF b = 0 THEN Len(body) ELSE b))} :
             numGetsSoFar' = CountGets(numGetsSoFar, seen)
        /\ walked' = IF b = 0 THEN Len(body) + 1 ELSE b
        /\ cur' = b
        /\ entry' = list
        /\ pushed' = {}
        /\ IF Len(list) < MinBlockSize
           THEN UNCHANGED <<pc, i, firstPushable>>
           ELSE /\ pc' = "pusher"
                /\ i' = 0
                /\ firstPushable' = nothing
  /\ lastFp' = nothing
  /\ UNCHANGED <<body, orig, sfa, numSets, numGets, seg, assertOk, run, first>>

walkDone ==
  /\ pc = "walk"
  /\ walked > Len(body)
  /\ pc' = "done"
  /\ UNCHANGED <<body, orig, sfa, numSets, numGets, numGetsSoFar, walked, cur, i,
                 firstPushable, seg, entry, pushed, assertOk, run, first, lastFp>>

(***************************************************************************)
(* Function bodies                                                         *)
(***************************************************************************)
Seqs(n) == [1 .. n -> Templates]

Flat(ts) == [k \in 1 .. Len(ts) |-> Stmt(ts[k], k)]

\* A body whose statements lo..hi are wrapped in a nested block.
Nested(ts, lo, hi) ==
  SubSeq(Flat(ts), 1, lo - 1)
    \o <<Block(Len(ts) + 1, SubSeq(Flat(ts), lo, hi))>>
    \o SubSeq(Flat(ts), hi + 1, Len(ts))

\* The pass is run on a function.  The bodies explored: every flat body of up
\* to maxLen statements, and the shorter bodies with a nested block that is
\* followed by one statement or preceded by two.
RunOnFunction(maxLen) ==
  /\ pc = "start"
  /\ \/ \E n \in 0 .. maxLen : \E ts \in Seqs(n) : body' = Flat(ts)
     \/ \E n \in MinBlockSize .. (maxLen - 1) : \E ts \in Seqs(n) :
          \/ body' = Nested(ts, 1, n - 1)
          \/ body' = Nested(ts, 3, n)
  /\ orig' = body'
  /\ WalkFunction(body')
  /\ UNCHANGED <<cur, i, firstPushable, seg, entry, pushed, assertOk, run, first,
                 lastFp>>

doWalkFunction == RunOnFunction(MaxLen)

\* the same on the bodies that are one statement shorter
doWalkShortFunction == RunOnFunction(MaxLen - 1)

\* The pass is run once more, on the function the first run produced.
runAgain ==
  /\ pc = "done" /\ run = 1
  /\ run' = 2
  /\ first' = body
  /\ WalkFunction(body)
  /\ UNCHANGED <<body, orig, cur, i, firstPushable, seg, entry, pushed, assertOk,
                 lastFp>>

\* The pass object as createCodePushingPass makes it, before any function.
Init ==
  /\ body = <<>>
  /\ orig = <<>>
  /\ sfa = [x \in Locals |-> FALSE]
  /\ numSets = [x \in Locals |-> 0]
  /\ numGets = [x \in Locals |-> 0]
  /\ numGetsSoFar = [x \in Locals |-> 0]
  /\ pc = "start"
  /\ walked = 0
  /\ cur = 0
  /\ i = 0
  /\ firstPushable = nothing
  /\ seg = NoSeg
  /\ entry = <<>>
  /\ pushed = {}
  /\ assertOk = TRUE
  /\ run = 1
  /\ first = <<>>
  /\ lastFp = nothing

Next ==
  \/ doWalkFunction
  \/ visitBlock
  \/ MarkFirstPushable
  \/ OptimizeSegment
  \/ Advance
  \/ PusherDone
  \/ walkDone

Spec == Init /\ [][Next]_vars

\* The pass run twice over the same body.
NextTwice == Next \/ runAgain

SpecTwice == Init /\ [][NextTwice]_vars

\* The pass is sequential code without suspension points: once it has been
\* started on a function it keeps running.
Running == visitBlock \/ MarkFirstPushable \/ OptimizeSegment \/ Advance
             \/ PusherDone \/ walkDone

NextShort == doWalkShortFunction \/ Running

FairSpec == Init /\ [][NextShort]_vars /\ WF_vars(Running)

(***************************************************************************)
(* Execution of a body, the reference the rewrite is compared against.     *)
(* A state is [locals, trace, br, val]: trace lists the calls made and the *)
(* branches taken, br says a branch is in flight, val is the value of the  *)
(* expression evaluated last.                                              *)
(***************************************************************************)
RECURSIVE Exec(_, _), ExecSeq(_, _)
ExecSeq(list, st) ==
  IF list = <<>> \/ st.br THEN st ELSE ExecSeq(Tail(list), Exec(Head(list), st))

Exec(e, st) ==
  CASE e.op = "const" -> [st EXCEPT !.val = e.index]
    [] e.op = "local.get" -> [st EXCEPT !.val = st.locals[e.index]]
    [] e.op = "local.set" ->
         LET s1 == Exec(e.kids[1], st)
         IN [s1 EXCEPT !.locals[e.index] = s1.val]
    [] e.op = "call" ->
         LET s1 == ExecSeq(e.kids, st)
             arg == IF e.kids = <<>> THEN 0 ELSE s1.val
         IN [s1 EXCEPT !.trace = Append(@, [id |-> e.id, kind |-> "call", val |-> arg]),
                       !.val = 100 + e.id]
    [] e.op = "break" ->
         LET s1 == ExecSeq(e.kids, st)
         IN IF e.kids = <<>> \/ s1.val # 0
            THEN [s1 EXCEPT !.trace = Append(@, [id |-> e.id, kind |-> "br", val |-> 0]),
                            !.br = TRUE]
            ELSE s1
    [] e.op = "if" ->
         LET s1 == Exec(e.kids[1], st)
         IN IF s1.val # 0 THEN Exec(e.kids[2], s1) ELSE s1
    [] e.op = "drop" -> Exec(e.kids[1], st)
    [] OTHER -> [ExecSeq(e.kids, st) EXCEPT !.br = FALSE]

Entry(p) ==
  [locals |-> [x \in Locals |-> IF x < getNumParams THEN p ELSE 0],
   trace |-> <<>>, br |-> FALSE, val |-> 0]

\* What a caller can observe of the body, for every value of the parameter.
Behaviour(b) == [p \in 0 .. 1 |-> ExecSeq(b, Entry(p)).trace]

(***************************************************************************)
(* Vocabulary of the properties                                            *)
(***************************************************************************)
Pos(list, n) == CHOOSE k \in 1 .. Len(list) : list[k].id = n

FilterIds(list, S) == SelectSeq([k \in 1 .. Len(list) |-> list[k].id], LAMBDA n : n \in S)

\* the locals an expression reads
GetsOf(e) ==
  LET nodes == PostOrder(e)
  IN {nodes[k].index : k \in {m \in 1 .. Len(nodes) : nodes[m].op = "local.get"}}

NumGetsIn(list, x) ==
  LET nodes == PostOrderList(list)
  IN Cardinality({k \in 1 .. Len(nodes) : nodes[k].op = "local.get" /\ nodes[k].index = x})

\* some local.get of x comes before a local.set of x in post-order
ReadBeforeSet(list, x) ==
  LET nodes == PostOrderList(list)
  IN \E k, m \in 1 .. Len(nodes) :
       /\ k < m
       /\ nodes[k].op = "local.get" /\ nodes[k].index = x
       /\ nodes[m].op = "local.set" /\ nodes[m].index = x

\* a Pusher has been constructed for block cur, and entry is its list then
InBlock == pc # "start" /\ walked > 0

\* the statements the Pusher has moved behind one that used to follow them
MovedLater ==
  {a \in Ids(entry) : \E b \in Ids(entry) :
     /\ Pos(entry, a) < Pos(entry, b)
     /\ Pos(CurList, a) > Pos(CurList, b)}

\* an optimizeSegment call has just returned
InSeg == seg.fp # nothing

\* the statements of seg's range that are not pushed and lie in (j, pushPoint)
SegBarrier(j) ==
  LET rest == SelectSeq(SubSeq(seg.before, j + 2, seg.pushPoint),
                        LAMBDA e : e.id \notin Ids(seg.toPush))
  IN mergeIn(ignoreControlFlowTransfers(Effects(At(seg.before, seg.pushPoint))),
             MergeAll([k \in 1 .. Len(rest) |-> Effects(rest[k])]))

(***************************************************************************)
(* C1: the body after every rewrite (the list changes in optimizeSegment   *)
(* only) and at the end has the behaviour of the body the pass             *)
(* was given: for every value of the parameter, the same calls are made    *)
(* with the same arguments (the values the read sites observe) and the     *)
(* same branches are taken, in the same order.                             *)
(***************************************************************************)
C1_SemanticsPreserved ==
  (InSeg \/ pc = "done") => Behaviour(body) = Behaviour(orig)

\* a set has been pushed past a branch that is taken for one input only, and
\* the value it sets is read by a call
C1_Witness ==
  /\ pc = "done" /\ body # orig
  /\ Behaviour(body)[0] # Behaviour(body)[1]
  /\ \E k \in 1 .. Len(Behaviour(body)[0]) :
       Behaviour(body)[0][k].kind = "call" /\ Behaviour(body)[0][k].val # 0

(***************************************************************************)
(* C2: the Pusher never moves a statement behind one that reads the local  *)
(* it assigns, so a local with a single assignment that had no read before *)
(* that assignment in the block's list has none after the rewrite either.  *)
(***************************************************************************)
C2_NoUseBeforeDef ==
  InSeg =>
    /\ \A a \in Ids(entry) : \A b \in Ids(entry) :
         (Pos(entry, a) < Pos(entry, b) /\ Pos(CurList, a) > Pos(CurList, b)) =>
           /\ entry[Pos(entry, a)].op = "local.set"
           /\ entry[Pos(entry, a)].index \notin GetsOf(entry[Pos(entry, b)])
    /\ \A k \in 1 .. Len(CurList) :
         (CurList[k].op = "local.set" /\ numSets[CurList[k].index] = 1) =>
           ((\E m \in 1 .. (k - 1) : CurList[k].index \in GetsOf(CurList[m]))
              => (\E m \in 1 .. (Pos(entry, CurList[k].id) - 1) :
                    CurList[k].index \in GetsOf(entry[m])))

\* a set has been pushed and a statement after it reads its local
C2_Witness ==
  /\ InBlock /\ MovedLater # {}
  /\ \E a \in MovedLater : \E m \in 1 .. Len(CurList) :
       /\ m > Pos(CurList, a)
       /\ CurList[Pos(CurList, a)].index \in GetsOf(CurList[m])

(***************************************************************************)
(* C3 as stated: over a whole Pusher invocation the statements that were   *)
(* selected for pushing keep their relative order, and so do the others.   *)
(***************************************************************************)
C3_OrderOverInvocation ==
  InBlock =>
    /\ FilterIds(CurList, pushed) = FilterIds(entry, pushed)
    /\ FilterIds(CurList, Ids(entry) \ pushed) = FilterIds(entry, Ids(entry) \ pushed)

(***************************************************************************)
(* C3 amended: each optimizeSegment call keeps the relative order of the   *)
(* statements it selects and of those it does not select; over the whole   *)
(* invocation the statements never selected keep their relative order.     *)
(***************************************************************************)
C3_OrderPerSegment ==
  /\ InSeg =>
       /\ FilterIds(CurList, Ids(seg.toPush)) = FilterIds(seg.before, Ids(seg.toPush))
       /\ FilterIds(CurList, Ids(seg.before) \ Ids(seg.toPush))
            = FilterIds(seg.before, Ids(seg.before) \ Ids(seg.toPush))
  /\ InSeg =>
       FilterIds(CurList, Ids(entry) \ pushed) = FilterIds(entry, Ids(entry) \ pushed)

\* a segment has pushed two statements past a push point
C3_Witness == InSeg /\ Len(seg.toPush) >= 2 /\ CurList # seg.before

(***************************************************************************)
(* C4: a second run of the pass over the body the first run produced       *)
(* leaves every block's list as it is.                                     *)
(***************************************************************************)
C4_Idempotent == run = 2 => body = first

\* the second run has finished on a body the first run had rewritten
C4_Witness == run = 2 /\ pc = "done" /\ first # orig /\ body = first

(***************************************************************************)
(* C5 as stated: when visitBlock is called on block B, every SFA local     *)
(* whose gets seen so far equal its total gets has all its reads inside B, *)
(* none before its assignment and none after B.                            *)
(***************************************************************************)
ConfinedAt(x) == isSFA(x) /\ numGetsSoFar[x] = getNumGets(x)

ReadsAfterBlock(x) ==
  IF cur = 0 THEN 0 ELSE NumGetsIn(SubSeq(body, cur + 1, Len(body)), x)

C5_ConfinedToBlock ==
  InBlock =>
    \A x \in Locals : ConfinedAt(x) =>
      /\ NumGetsIn(CurList, x) = NumGetsIn(body, x)
      /\ ~ReadBeforeSet(body, x)
      /\ ReadsAfterBlock(x) = 0

(***************************************************************************)
(* C5 amended: such a local has no read before its assignment and none     *)
(* after B, and when its assignment is a statement of B's list (the case   *)
(* isPushable tests) all its reads are inside B.                           *)
(***************************************************************************)
C5_ConfinedWhenSetInBlock ==
  InBlock =>
    \A x \in Locals : ConfinedAt(x) =>
      /\ ~ReadBeforeSet(body, x)
      /\ ReadsAfterBlock(x) = 0
      /\ (\E k \in 1 .. Len(CurList) :
            CurList[k].op = "local.set" /\ CurList[k].index = x)
           => NumGetsIn(CurList, x) = NumGetsIn(body, x)

\* a nested block is visited, a local assigned in it is confined to it and
\* read in it, and another local is read after the block
C5_Witness ==
  /\ InBlock /\ cur # 0
  /\ \E x \in Locals :
       /\ ConfinedAt(x) /\ getNumGets(x) > 0
       /\ \E k \in 1 .. Len(CurList) :
            CurList[k].op = "local.set" /\ CurList[k].index = x
  /\ \E z \in Locals : ReadsAfterBlock(z) > 0

(***************************************************************************)
(* C6: every statement the Pusher selects or moves later is a local.set    *)
(* whose value has no side effects, whose local is SFA and whose gets have *)
(* all been seen.                                                          *)
(***************************************************************************)
C6_OnlyPureSetsPushed ==
  InSeg =>
    \A a \in pushed \cup MovedLater :
      LET s == entry[Pos(entry, a)]
      IN /\ s.op = "local.set"
         /\ ~hasSideEffects(Effects(s.kids[1]))
         /\ sfa[s.index]
         /\ numGetsSoFar[s.index] = numGets[s.index]

\* a set was pushed while a set whose value calls stayed where it was
C6_Witness ==
  /\ InBlock /\ pc = "walk" /\ MovedLater # {}
  /\ \E k \in 1 .. Len(entry) :
       /\ entry[k].op = "local.set"
       /\ hasSideEffects(Effects(entry[k].kids[1]))
       /\ sfa[entry[k].index]
       /\ numGetsSoFar[entry[k].index] = numGets[entry[k].index]
       /\ CurList[k] = entry[k]

(***************************************************************************)
(* C7: in a segment [firstPushable, pushPoint] the statement at j is       *)
(* selected exactly when it is pushable and the push point's effects       *)
(* (control-flow transfers ignored) merged with the effects of every       *)
(* statement of (j, pushPoint) that is not selected do not invalidate its  *)
(* effects; only statements of the segment are selected.                   *)
(***************************************************************************)
C7_SelectionRule ==
  InSeg =>
    /\ \A j \in seg.fp .. (seg.pushPoint - 1) :
         (At(seg.before, j).id \in Ids(seg.toPush)) <=>
           /\ isPushable(At(seg.before, j))
           /\ ~invalidates(SegBarrier(j), Effects(At(seg.before, j)))
    /\ Ids(seg.toPush) \subseteq
         {At(seg.before, j).id : j \in seg.fp .. (seg.pushPoint - 1)}

\* a candidate that conflicts with the push point stays, and keeps an earlier
\* candidate, which does not conflict with the push point, from being selected
C7_Witness ==
  /\ InSeg
  /\ \E j, m \in seg.fp .. (seg.pushPoint - 1) :
       /\ j < m
       /\ isPushable(At(seg.before, j)) /\ isPushable(At(seg.before, m))
       /\ At(seg.before, j).id \notin Ids(seg.toPush)
       /\ At(seg.before, m).id \notin Ids(seg.toPush)
       /\ ~invalidates(ignoreControlFlowTransfers(Effects(At(seg.before, seg.pushPoint))),
                       Effects(At(seg.before, j)))

(***************************************************************************)
(* C8: after optimizeSegment(firstPushable, p) selected k >= 1 statements, *)
(* indices firstPushable..p-k hold the other statements of the range in    *)
(* their order, the push point at p-k, indices p-k+1..p hold the selected  *)
(* ones in their order, the rest of the list is untouched and the scan     *)
(* resumes at p-k+1; with k = 0 the list is unchanged and the scan resumes *)
(* at p+1.                                                                 *)
(***************************************************************************)
C8_SegmentRewrite ==
  InSeg =>
    LET k == Len(seg.toPush)
        p == seg.pushPoint
        range == SubSeq(seg.before, seg.fp + 1, p + 1)
        kept == SelectSeq(range, LAMBDA e : e.id \notin Ids(seg.toPush))
        moved == SelectSeq(range, LAMBDA e : e.id \in Ids(seg.toPush))
    IN IF k = 0
       THEN CurList = seg.before /\ seg.ret = p + 1 /\ i = p + 1
       ELSE /\ CurList = SubSeq(seg.before, 1, seg.fp) \o kept \o moved
                           \o SubSeq(seg.before, p + 2, Len(seg.before))
            /\ Len(moved) = k
            /\ At(CurList, p - k) = At(seg.before, p)
            /\ seg.ret = p - k + 1 /\ i = p - k + 1

\* a set was pushed over a later set that stayed and over the push point
C8_Witness ==
  /\ InSeg /\ seg.toPush # <<>>
  /\ \E j, m \in seg.fp .. (seg.pushPoint - 1) :
       /\ j < m
       /\ At(seg.before, j).id \in Ids(seg.toPush)
       /\ At(seg.before, m).id \notin Ids(seg.toPush)

(***************************************************************************)
(* C9: no assert of the Pusher fails: optimizeSegment is called with       *)
(* firstPushable < pushPoint, the backward scan stops at firstPushable and *)
(* never steps below index 0, and the compaction skips as many slots as    *)
(* statements were selected.                                               *)
(***************************************************************************)
C9_AssertsHold ==
  /\ assertOk
  /\ InSeg => /\ 0 <= seg.fp /\ seg.fp < seg.pushPoint
              /\ seg.pushPoint < Len(seg.before) - 1

\* a segment that starts at index 0 has selected and compacted two statements
C9_Witness == InSeg /\ seg.fp = 0 /\ Len(seg.toPush) >= 2 /\ assertOk

(***************************************************************************)
(* C10: every Pusher invocation finishes its scan; each optimizeSegment    *)
(* call returns an index greater than its firstPushable, and starts at an  *)
(* index greater than the call before it in the same invocation.           *)
(***************************************************************************)
C10_Terminates ==
  /\ (pc = "pusher") ~> (pc # "pusher")
  /\ [](InSeg => seg.ret > seg.fp)
  /\ [](InSeg /\ seg.prev # nothing => seg.fp > seg.prev)

\* a later segment of an invocation has selected a statement, so that the scan
\* does not go on after its push point
C10_Witness ==
  InSeg /\ seg.prev # nothing /\ seg.toPush # <<>> /\ seg.ret <= seg.pushPoint

====
